---------------------------- MODULE Spec2Model ----------------------------
(***************************************************************************)
(* Model of the plagiarism service of wiki-detect-plagiarize:              *)
(*   findAllSimilarities        the phrase matcher (window scan, forward   *)
(*                              extension, covered ranges, coverage score) *)
(*   calculateOverallSimilarity the aggregate score                        *)
(*   checkPlagiarism            the orchestration over Wikipedia fetches   *)
(*                                                                         *)
(* Strings are sequences of one-character strings.  JavaScript indices are *)
(* 0-based and are kept 0-based in every value the code computes; only the *)
(* accesses into TLA+ sequences add 1.                                     *)
(*                                                                         *)
(* Numbers the code computes in floating point are kept exact: a           *)
(* percentage is a reduced fraction [num, den], and the aggregate score,   *)
(* which is a square root, is kept as its square.                          *)
(***************************************************************************)
EXTENDS Integers, Sequences, FiniteSets, TLC

VARIABLES
    mode,               \* which entry point this behaviour exercises
    \* ---- findAllSimilarities -------------------------------------------
    originalText,       \* argument originalText (raw)
    sourceText,         \* argument sourceText (raw)
    pc,                 \* position in findAllSimilarities
    normalizedSource,   \* const normalizedSource
    originalWords,      \* const originalWords
    sourceWords,        \* const sourceWords
    windowSize,         \* outer loop counter
    i,                  \* inner loop counter
    matches,            \* const matches = []
    coveredRanges,      \* const coveredRanges = []
    result,             \* the returned { overallSimilarity, matches }
    \* ---- calculateOverallSimilarity ------------------------------------
    scoreArg,           \* argument matches
    scoreRet,           \* the returned number, or NotReturned
    \* ---- checkPlagiarism -----------------------------------------------
    text,               \* argument text
    searchResponse,     \* the network: term index -> response of the search fetch
    contentResponse,    \* the network: pageid -> response of the extract fetch
    cpc,                \* position in checkPlagiarism
    searchTerms,        \* const searchTerms
    searchResults,      \* the promises of searchTerms.map(searchWikipedia)
    flatResults,        \* const flatResults
    articleContents,    \* the promises of flatResults.map(getWikipediaContent)
    plagResult,         \* the PlagiarismResult the promise resolves with
    settleOrder,        \* history: the fetches in the order they settled
    \* ---- PlagiarismChecker (component state) ---------------------------
    uiText,             \* useState: text
    isChecking,         \* useState: isChecking
    results,            \* useState: results (Null or a PlagiarismResult)
    call,               \* the checkPlagiarism promise awaited: NoCall or its argument
    calls,              \* history: how many times checkPlagiarism was called
    lastToast,          \* the toast shown last
    \* ---- PlagiarizedTextHighlighter.renderHighlightedText --------------
    hlText,             \* prop originalText
    hlMatches,          \* prop matches
    hpc,                \* position in renderHighlightedText
    sortedMatches,      \* const sortedMatches
    matchIndex,         \* forEach position in sortedMatches (0-based)
    lastIndex,          \* regex.lastIndex
    highlightedRanges,  \* const highlightedRanges
    rendered            \* the spans returned, in order

matcherVars == <<originalText, sourceText, pc, normalizedSource, originalWords,
                 sourceWords, windowSize, i, matches, coveredRanges, result>>

scoreVars == <<scoreArg, scoreRet>>

checkVars == <<text, searchResponse, contentResponse, cpc, searchTerms, searchResults,
               flatResults, articleContents, plagResult, settleOrder>>

uiVars == <<uiText, isChecking, results, call, calls, lastToast>>

hlVars == <<hlText, hlMatches, hpc, sortedMatches, matchIndex, lastIndex,
            highlightedRanges, rendered>>

viewVars == <<uiVars, hlVars>>

vars == <<mode, matcherVars, scoreVars, checkVars, viewVars>>

---------------------------------------------------------------------------
(* Bounds of the explored inputs.                                          *)

MaxOrigTokens == 5
MaxSrcTokens == 5
MaxRawLen == 3
MaxDupTokens == 17
MaxScoreMatches == 5
MaxRepeat == 33
LongTokens == 100
MaxCalls == 2
MaxHlLen == 3
MaxMatchLen == 2
MaxHlMatches == 2

---------------------------------------------------------------------------
(* Program constants.                                                      *)

\* a variant of MinWindow: the outer loop runs down to windows of one word
MinWindowLoose == 2 - 1

\* a variant of ContextChars: no trailing context
ContextNone == 1 - 1

MaxWindow == 15
MinWindow == 4
MatchThreshold == 5
ContextChars == 20
MaxCountWeight == 5
InclusionThreshold == 10
MaxArticles == 8
ExcerptMargin == 50
MinChars == 50

---------------------------------------------------------------------------
(* Exact arithmetic.                                                        *)

RECURSIVE GCD(_, _)
GCD(a, b) == IF b = 0 THEN a ELSE GCD(b, a % b)

\* the fraction n/d (d > 0, n >= 0), reduced
Rat(n, d) == LET g == GCD(n, d) IN [num |-> n \div g, den |-> d \div g]

RatLess(x, y) == x.num * y.den < y.num * x.den
RatLeq(x, y) == x.num * y.den <= y.num * x.den
RatAdd(x, y) == Rat(x.num * y.den + y.num * x.den, x.den * y.den)
RatMin(x, y) == IF RatLess(y, x) THEN y ELSE x
RatInt(n) == [num |-> n, den |-> 1]

Min(a, b) == IF a < b THEN a ELSE b
Max(a, b) == IF a > b THEN a ELSE b

\* the least and the greatest element of a non-empty set of integers
Least(S) == CHOOSE x \in S : \A y \in S : x <= y
Greatest(S) == CHOOSE x \in S : \A y \in S : x >= y

---------------------------------------------------------------------------
(* Characters and the string primitives the code uses.                     *)

Letters == <<"a", "b", "c", "d", "e", "f", "g", "h", "i", "j", "k", "l", "m", "n",
             "o", "p", "q", "r", "s", "t", "u", "v", "w", "x", "y", "z">>
Capitals == <<"A", "B", "C", "D", "E", "F", "G", "H", "I", "J", "K", "L", "M", "N",
              "O", "P", "Q", "R", "S", "T", "U", "V", "W", "X", "Y", "Z">>
LowerChars == {Letters[k] : k \in 1..Len(Letters)}
LowerOf == [c \in {Capitals[k] : k \in 1..Len(Capitals)} |->
              Letters[CHOOSE k \in 1..Len(Capitals) : Capitals[k] = c]]
Digits == <<"0", "1", "2", "3", "4", "5", "6", "7", "8", "9">>
DigitChars == {Digits[k] : k \in 1..Len(Digits)}
SpaceChars == {" ", "\t", "\n"}

\* \w of a JavaScript regular expression: [A-Za-z0-9_]
IsWordChar(c) == c \in LowerChars \cup DOMAIN LowerOf \cup DigitChars \cup {"_"}
\* \s of a JavaScript regular expression
IsSpaceChar(c) == c \in SpaceChars

\* String.prototype.toLowerCase
toLowerCase(s) == [k \in 1..Len(s) |-> IF s[k] \in DOMAIN LowerOf THEN LowerOf[s[k]] ELSE s[k]]

\* .replace(/[^\w\s]/g, '')
StripNonWord(s) == SelectSeq(s, LAMBDA c : IsWordChar(c) \/ IsSpaceChar(c))

\* s with every maximal run of characters of class replaced by the one
\* character by: the first of a run becomes by, the rest of it goes
ReplaceRuns(s, class, by) ==
    LET marked == [k \in 1..Len(s) |->
                     IF s[k] \in class
                     THEN IF k > 1 /\ s[k - 1] \in class THEN "" ELSE by
                     ELSE s[k]]
    IN SelectSeq(marked, LAMBDA c : c # "")

\* .replace(/\s+/g, ' ')
CollapseSpaces(s) == ReplaceRuns(s, SpaceChars, " ")

\* String.prototype.trim
trim(s) ==
    LET inked == {k \in 1..Len(s) : ~IsSpaceChar(s[k])}
    IN IF inked = {} THEN <<>> ELSE SubSeq(s, Least(inked), Greatest(inked))

\* a variant of normalizeText: punctuation is removed last
normalizeStripLast(s) == StripNonWord(trim(CollapseSpaces(toLowerCase(s))))

\* const normalizeText = (text) => ...
normalizeText(s) == trim(CollapseSpaces(StripNonWord(toLowerCase(s))))

\* String.prototype.split(sep) for a one-character sep: the pieces between
\* the separators, one more than there are separators ("" gives [""])
SplitOn(s, sep) ==
    LET seps == {k \in 1..Len(s) : s[k] = sep}
        tagged == [k \in 1..Len(s) |->
                     [piece |-> Cardinality({j \in seps : j < k}) + 1,
                      isSep |-> k \in seps,
                      char |-> s[k]]]
        Piece(n) == LET sel == SelectSeq(tagged, LAMBDA c : c.piece = n /\ ~c.isSep)
                    IN [j \in 1..Len(sel) |-> sel[j].char]
    IN [n \in 1..(Cardinality(seps) + 1) |-> Piece(n)]

\* String.prototype.split(' ')
split(s) == SplitOn(s, " ")

\* Array.prototype.join(' ') of ws[lo..hi]
RECURSIVE JoinRange(_, _, _)
JoinRange(ws, lo, hi) ==
    IF lo > hi THEN <<>>
    ELSE IF lo = hi THEN ws[lo]
    ELSE LET mid == (lo + hi) \div 2
         IN JoinRange(ws, lo, mid) \o <<" ">> \o JoinRange(ws, mid + 1, hi)
join(ws) == JoinRange(ws, 1, Len(ws))

\* a variant of indexOf: only occurrences that begin and end at a space or
\* at an end of hay count
indexOfAligned(hay, needle) ==
    LET hits == {k \in 0..(Len(hay) - Len(needle)) :
                   /\ \A j \in 1..Len(needle) : hay[k + j] = needle[j]
                   /\ (k = 0 \/ hay[k] = " ")
                   /\ (k + Len(needle) = Len(hay) \/ hay[k + Len(needle) + 1] = " ")}
    IN IF hits = {} THEN -1 ELSE CHOOSE h \in hits : \A g \in hits : h <= g

\* String.prototype.indexOf: the first 0-based offset of needle, or -1
indexOf(hay, needle) ==
    LET hits == {k \in 0..(Len(hay) - Len(needle)) :
                   \A j \in 1..Len(needle) : hay[k + j] = needle[j]}
    IN IF hits = {} THEN -1 ELSE Least(hits)

\* String.prototype.substring(from, to) for 0 <= from <= to
substring(s, from, to) == SubSeq(s, Min(from, Len(s)) + 1, Min(to, Len(s)))

\* Array.prototype.slice(from, to) on the token array
slice(ws, from, to) == SubSeq(ws, from + 1, Min(to, Len(ws)))

---------------------------------------------------------------------------
(* findAllSimilarities: the loop body.                                     *)

\* a variant of IsCovered: no start index is ever skipped
NeverCovered(ranges, idx) == FALSE

\* coveredRanges.some(range => i >= range.start && i <= range.end)
IsCovered(ranges, idx) ==
    \E r \in 1..Len(ranges) : idx >= ranges[r].start /\ idx <= ranges[r].end

\* the while loop "Extend forward": the final originalEnd.  sourceEnd is
\* the character offset sourceIndex + phrase.length and is the subscript
\* the code applies to sourceWords, whose elements past the end are
\* undefined and equal no word.
RECURSIVE ExtendForward(_, _, _, _, _)
ExtendForward(ow, sw, srcLen, originalEnd, sourceEnd) ==
    IF /\ originalEnd < Len(ow)
       /\ sourceEnd < srcLen
       /\ sourceEnd < Len(sw)
       /\ ow[originalEnd + 1] = sw[sourceEnd + 1]
    THEN ExtendForward(ow, sw, srcLen, originalEnd + 1, sourceEnd + 1)
    ELSE originalEnd

\* similarityScore = (matchLength / originalWords.length) * 100
SimilarityScore(matchLength, nWords) == Rat(matchLength * 100, nWords)

\* a variant of IsSignificant: >= 5 in place of > 5
IsSignificantFromFive(score) == RatLeq(RatInt(MatchThreshold), score)

\* if (similarityScore > 5)
IsSignificant(score) == RatLess(RatInt(MatchThreshold), score)

\* the candidate found at window [idx, idx + w - 1] with phrase at sourceIndex
Candidate(raw, ow, sw, ns, w, idx, phrase, sourceIndex) ==
    LET originalEnd == ExtendForward(ow, sw, Len(ns), idx + w, sourceIndex + Len(phrase))
        extendedMatch == join(slice(ow, idx, originalEnd))
        matchLength == Len(split(extendedMatch))
        originalPhraseIndex == indexOf(toLowerCase(raw), toLowerCase(extendedMatch))
        actualMatchedText ==
            IF originalPhraseIndex >= 0
            THEN substring(raw, originalPhraseIndex,
                           originalPhraseIndex + Len(extendedMatch) + ContextChars)
            ELSE extendedMatch
    IN [match |-> [similarity |-> SimilarityScore(matchLength, Len(ow)),
                   matchedText |-> actualMatchedText,
                   originalIndex |-> originalPhraseIndex,
                   sourceIndex |-> sourceIndex],
        range |-> [start |-> idx, end |-> originalEnd - 1]]

\* one iteration of the inner for loop at (w, idx): the new matches and
\* coveredRanges
LoopBody(raw, ow, sw, ns, w, idx, ms, ranges) ==
    IF IsCovered(ranges, idx)
    THEN [matches |-> ms, coveredRanges |-> ranges]
    ELSE LET phrase == join(slice(ow, idx, idx + w))
             sourceIndex == indexOf(ns, phrase)
         IN IF sourceIndex >= 0
            THEN LET c == Candidate(raw, ow, sw, ns, w, idx, phrase, sourceIndex)
                 IN IF IsSignificant(c.match.similarity)
                    THEN [matches |-> Append(ms, c.match),
                          coveredRanges |-> Append(ranges, c.range)]
                    ELSE [matches |-> ms, coveredRanges |-> ranges]
            ELSE [matches |-> ms, coveredRanges |-> ranges]

\* coveredRanges.reduce((total, range) => total + (range.end - range.start + 1), 0)
RECURSIVE CoverageOf(_, _, _)
CoverageOf(ranges, lo, hi) ==
    IF lo > hi THEN 0
    ELSE IF lo = hi THEN ranges[lo].end - ranges[lo].start + 1
    ELSE LET mid == (lo + hi) \div 2
         IN CoverageOf(ranges, lo, mid) + CoverageOf(ranges, mid + 1, hi)
TotalCoverage(ranges) == CoverageOf(ranges, 1, Len(ranges))

\* a variant of CoverageSimilarity: the percentage without Math.min
CoverageUnclamped(ranges, nWords) == Rat(TotalCoverage(ranges) * 100, nWords)

\* Math.min((totalCoverage / originalWords.length) * 100, 100)
CoverageSimilarity(ranges, nWords) ==
    RatMin(Rat(TotalCoverage(ranges) * 100, nWords), RatInt(100))

\* a variant of SortBySimilarity: the array is left as it was filled
KeepOrder(ms) == ms

\* Array.prototype.sort((a, b) => b.similarity - a.similarity), which is
\* stable: an element goes after every element of greater similarity and
\* after the earlier elements of equal similarity
SortBySimilarity(ms) ==
    LET Before(j, k) == \/ RatLess(ms[k].similarity, ms[j].similarity)
                        \/ (j < k /\ ~RatLess(ms[j].similarity, ms[k].similarity))
        Place(k) == Cardinality({j \in 1..Len(ms) : Before(j, k)}) + 1
    IN [p \in 1..Len(ms) |-> ms[CHOOSE k \in 1..Len(ms) : Place(k) = p]]

\* return { overallSimilarity, matches: matches.sort(...) }
MatcherResult(ms, ranges, nWords) ==
    [overallSimilarity |-> CoverageSimilarity(ranges, nWords),
     matches |-> SortBySimilarity(ms)]

---------------------------------------------------------------------------
(* findAllSimilarities as a pure function (its callers use it so).         *)

\* The loops run in the code's order.  A range of iterations is split in
\* two halves and the first half is evaluated to a value before the second
\* half starts from it, which keeps the evaluation shallow.

\* the element of a set of one element, as a value
TheOne(S) == CHOOSE r \in S : TRUE

\* for (let i = lo; i <= hi; i++) at window size w
RECURSIVE ScanIndices(_, _, _, _, _)
ScanIndices(env, w, lo, hi, acc) ==
    IF lo > hi THEN acc
    ELSE IF lo = hi
         THEN LoopBody(env.raw, env.ow, env.sw, env.ns, w, lo, acc.matches, acc.coveredRanges)
    ELSE LET mid == (lo + hi) \div 2
         IN TheOne({ScanIndices(env, w, mid + 1, hi, first) :
                       first \in {ScanIndices(env, w, lo, mid, acc)}})

\* for (let windowSize = hi; windowSize >= lo; windowSize--)
RECURSIVE ScanWindows(_, _, _, _)
ScanWindows(env, hi, lo, acc) ==
    IF hi < lo THEN acc
    ELSE IF hi = lo THEN ScanIndices(env, hi, 0, Len(env.ow) - hi, acc)
    ELSE LET mid == (hi + lo + 1) \div 2
         IN TheOne({ScanWindows(env, mid - 1, lo, first) :
                       first \in {ScanWindows(env, hi, mid, acc)}})

findAllSimilarities(original, source) ==
    TheOne({LET acc == ScanWindows(env, Min(MaxWindow, Len(env.ow)), MinWindow,
                                   [matches |-> <<>>, coveredRanges |-> <<>>])
            IN MatcherResult(acc.matches, acc.coveredRanges, Len(env.ow)) :
            env \in {[raw |-> original, ow |-> split(normalizeText(original)),
                      sw |-> split(normalizeText(source)), ns |-> normalizeText(source)]}})

---------------------------------------------------------------------------
(* calculateOverallSimilarity.  The returned number r >= 0 is kept as r^2: *)
(* r = min(sqrt(total * min(n, 5)) * 0.8, 100) is                          *)
(* r^2 = min(total * min(n, 5) * 16/25, 10000).                            *)

\* matches.reduce((sum, match) => sum + match.similarity, 0)
RECURSIVE SimilarityOf(_, _, _)
SimilarityOf(ms, lo, hi) ==
    IF lo > hi THEN RatInt(0)
    ELSE IF lo = hi THEN ms[lo].similarity
    ELSE LET mid == (lo + hi) \div 2
         IN RatAdd(SimilarityOf(ms, lo, mid), SimilarityOf(ms, mid + 1, hi))
TotalSimilarity(ms) == SimilarityOf(ms, 1, Len(ms))

\* a variant of calculateOverallSimilarity: the count weighs without limit
calculateUnsaturated(ms) ==
    IF Len(ms) = 0 THEN RatInt(0)
    ELSE LET totalSimilarity == TotalSimilarity(ms)
         IN RatMin(Rat(totalSimilarity.num * Len(ms) * 16, totalSimilarity.den * 25),
                   RatInt(100 * 100))

\* calculateOverallSimilarity, squared:
\* min(sqrt(totalSimilarity * min(length, 5)) * 0.8, 100)^2
calculateOverallSimilarity(ms) ==
    IF Len(ms) = 0 THEN RatInt(0)
    ELSE LET totalSimilarity == TotalSimilarity(ms)
             weight == Min(Len(ms), MaxCountWeight)
         IN RatMin(Rat(totalSimilarity.num * weight * 16, totalSimilarity.den * 25),
                   RatInt(100 * 100))

---------------------------------------------------------------------------
(* checkPlagiarism: its helpers.                                           *)

\* a title that the page data lacks: no string of characters
Undefined == <<"undefined">>
\* the null that getWikipediaContent resolves with
Null == [isNull |-> TRUE]
\* a promise: pending, fulfilled with a value, or rejected
Pending == [state |-> "pending"]
Fulfilled(v) == [state |-> "fulfilled", value |-> v]
Rejected == [state |-> "rejected"]

\* text.split(/[.!?]+/): a run of terminators separates once
Terminators == {".", "!", "?"}
SplitSentences(s) == SplitOn(ReplaceRuns(s, Terminators, "."), ".")

\* the first position of an element in an array (0-based)
FirstIndex(arr, x) == CHOOSE k \in 0..(Len(arr) - 1) :
                         /\ arr[k + 1] = x
                         /\ \A j \in 0..(k - 1) : arr[j + 1] # x

extractSearchTerms(t) ==
    LET parts == SplitSentences(t)
        trimmed == [k \in 1..Len(parts) |-> trim(parts[k])]
        sentences == SelectSeq(trimmed, LAMBDA x : Len(x) > 15 /\ Len(split(x)) > 5)
        n == Len(sentences)
        sampled == <<sentences[1], sentences[(n \div 4) + 1], sentences[(n \div 2) + 1],
                     sentences[((3 * n) \div 4) + 1], sentences[n]>>
        keep == {k \in 1..5 : FirstIndex(sampled, sampled[k]) = k - 1}
        textLength == Len(t)
    IN IF n > 5
       THEN LET RECURSIVE Pick(_)
                Pick(k) == IF k > 5 THEN <<>>
                           ELSE (IF k \in keep THEN <<sampled[k]>> ELSE <<>>) \o Pick(k + 1)
            IN Pick(1)
       ELSE IF n > 0 THEN sentences
       ELSE IF textLength > 200
            THEN <<substring(t, 0, 100),
                   substring(t, (textLength - 100) \div 2, (textLength + 100) \div 2),
                   substring(t, textLength - 100, textLength)>>
            ELSE <<t>>

\* The outcome of a fetch is [kind, ...]: "neterr" (fetch rejects), "notok"
\* (response.ok is false), "malformed" (the body lacks data.query) or "ok".

\* searchWikipedia: how its promise settles, given the fetch's outcome.
\* Every throw inside the try is caught and gives [].
searchWikipedia(resp) ==
    IF resp.kind = "ok"
    THEN Fulfilled([k \in 1..Len(resp.search) |->
                      [title |-> resp.search[k].title, pageid |-> resp.search[k].pageid]])
    ELSE Fulfilled(<<>>)

\* a variant of getWikipediaContent: no try/catch, a failed fetch rejects
getWikipediaContentUncaught(resp, pageId) ==
    IF resp.kind # "ok" THEN Rejected
    ELSE IF pageId \notin DOMAIN resp.pages THEN Rejected
    ELSE IF resp.pages[pageId].extract = <<>> THEN Fulfilled(Null)
    ELSE Fulfilled([title |-> resp.pages[pageId].title,
                    extract |-> resp.pages[pageId].extract,
                    pageid |-> pageId])

\* getWikipediaContent: how its promise settles, given the fetch's outcome.
\* Every throw inside the try is caught and gives null.
getWikipediaContent(resp, pageId) ==
    IF resp.kind # "ok" THEN Fulfilled(Null)
    ELSE IF pageId \notin DOMAIN resp.pages THEN Fulfilled(Null)
    ELSE IF resp.pages[pageId].extract = <<>> THEN Fulfilled(Null)
    ELSE Fulfilled([title |-> resp.pages[pageId].title,
                    extract |-> resp.pages[pageId].extract,
                    pageid |-> pageId])

\* the values of an array of fulfilled promises (what await Promise.all gives)
Values(promises) == [k \in 1..Len(promises) |-> promises[k].value]
AllFulfilled(promises) == \A k \in 1..Len(promises) : promises[k].state = "fulfilled"
SomeRejected(promises) == \E k \in 1..Len(promises) : promises[k].state = "rejected"

\* the concatenation of arrs[lo..hi]
RECURSIVE ConcatRange(_, _, _)
ConcatRange(arrs, lo, hi) ==
    IF lo > hi THEN <<>>
    ELSE IF lo = hi THEN arrs[lo]
    ELSE LET mid == (lo + hi) \div 2
         IN ConcatRange(arrs, lo, mid) \o ConcatRange(arrs, mid + 1, hi)

\* searchResults.flat()
Flat(arrs) == ConcatRange(arrs, 1, Len(arrs))

\* .filter((result, index, self) => index === self.findIndex(r => r.pageid === result.pageid))
DedupeByPageid(rs) ==
    LET tagged == [k \in 1..Len(rs) |->
                     [first |-> \A j \in 1..(k - 1) : rs[j].pageid # rs[k].pageid,
                      r |-> rs[k]]]
        sel == SelectSeq(tagged, LAMBDA x : x.first)
    IN [k \in 1..Len(sel) |-> sel[k].r]

\* flat, de-duplicated, .slice(0, 8)
FlatResults(found) == slice(DedupeByPageid(Flat(found)), 0, MaxArticles)

\* article.title.replace(/ /g, '_')
ReplaceSpaces(s) == [k \in 1..Len(s) |-> IF s[k] = " " THEN "_" ELSE s[k]]

\* whether the loop over articleContents looks at this article
IsUsable(article) == article # Null /\ article.extract # <<>>

\* a variant of IsIncluded: >= 10 in place of > 10
IsIncludedFromTen(similarityResults) ==
    RatLeq(RatInt(InclusionThreshold), similarityResults.overallSimilarity)

\* if (similarityResults.overallSimilarity > 10)
IsIncluded(similarityResults) ==
    RatLess(RatInt(InclusionThreshold), similarityResults.overallSimilarity)

\* the object pushed for one match of one article
PlagiarismMatchOf(article, m) ==
    [source |-> article.title,
     similarity |-> m.similarity,
     matchedText |-> m.matchedText,
     sourceText |-> substring(article.extract,
                              Max(0, m.sourceIndex - ExcerptMargin),
                              Min(Len(article.extract),
                                  m.sourceIndex + Len(m.matchedText) + ExcerptMargin)),
     sourceUrl |-> <<"https://en.wikipedia.org/wiki/">> \o ReplaceSpaces(article.title)]

\* what one article pushes onto matches
ArticleMatches(t, article) ==
    IF ~IsUsable(article) THEN <<>>
    ELSE IF article.title = Undefined THEN <<>>
    ELSE LET similarityResults == findAllSimilarities(t, article.extract)
         IN IF IsIncluded(similarityResults)
            THEN [k \in 1..Len(similarityResults.matches) |->
                    PlagiarismMatchOf(article, similarityResults.matches[k])]
            ELSE <<>>

\* article.title.replace throws a TypeError when the page data has no title
ArticleThrows(t, article) ==
    /\ IsUsable(article)
    /\ article.title = Undefined
    /\ IsIncluded(findAllSimilarities(t, article.extract))

\* whether the loop over articleContents throws
CompareThrows(t, articles) == \E k \in 1..Len(articles) : ArticleThrows(t, articles[k])

\* articleContents.forEach(...): the matches pushed, in order
CollectMatches(t, articles) ==
    Flat([k \in 1..Len(articles) |-> ArticleMatches(t, articles[k])])

\* sort, score, return
PlagiarismResult(ms) ==
    LET sorted == SortBySimilarity(ms)
    IN [overallSimilarity |-> calculateOverallSimilarity(sorted), matches |-> sorted]

---------------------------------------------------------------------------
(* Inputs.                                                                 *)

Words == {<<"a">>, <<"b">>}
RawChars == {"A", "_", ".", " ", "\t"}
SimilarityValues == {RatInt(0), RatInt(20), Rat(25, 2), RatInt(100)}

SeqsUpTo(S, n) == UNION {[1..k -> S] : k \in 0..n}

\* the text of one-character words
TextOf(cs) == join([k \in 1..Len(cs) |-> <<cs[k]>>])

\* every pair of texts of a few words
SmallInputs ==
    {<<join(o), join(s)>> : o \in SeqsUpTo(Words, MaxOrigTokens),
                            s \in SeqsUpTo(Words, MaxSrcTokens)}

\* short raw texts with capitals, punctuation, underscores and white space,
\* as the original and as the source
RawInputs ==
    LET raws == SeqsUpTo(RawChars, MaxRawLen)
        fixed == {<<>>, TextOf(<<"a", "a", "a", "a">>), TextOf(<<"a", "b", "a", "b", "a">>)}
    IN {<<r, f>> : r \in raws, f \in fixed} \cup {<<f, r>> : r \in raws, f \in fixed}

\* a text compared with itself
DuplicateInputs ==
    {<<TextOf(SubSeq(Letters, 1, n)), TextOf(SubSeq(Letters, 1, n))>> : n \in 0..MaxDupTokens}

\* longer pairs that show one behaviour each
ScenarioInputs ==
    { \* a window-4 hit at 0 that reaches into the window-5 range [1, 5]
      <<TextOf(<<"a", "b", "b", "b", "b", "b">>),
        TextOf(<<"b", "b", "b", "b", "b", "a", "b", "b", "b">>)>>,
      \* a window-4 hit at 0 whose extension runs into the window-5 range [4, 8]
      <<TextOf(<<"a", "b", "c", "d", "e", "f", "g", "h", "i">>),
        TextOf(<<"a", "b", "c", "d", "x", "x", "x", "e", "e", "f", "g", "h", "i">>)>>,
      \* two window-4 hits, the second one extended: found in ascending similarity
      <<TextOf(<<"a", "b", "c", "d", "e", "f", "g", "h", "j">>),
        TextOf(<<"e", "f", "g", "h", "a", "b", "c", "j", "a", "b", "c", "d">>)>>,
      \* capitals and punctuation in both texts, a hit inside a longer source word
      <<<<"A", " ", "b", ",", " ", "c", " ", "D", ".", " ", "a">>,
        <<"x", "a", " ", "B", " ", "c", "!", " ", "d", "x">>>>,
      \* capitals in the original, whose lowercased text holds the phrase
      <<<<"A", " ", "b", " ", "c", " ", "D", " ", "e">>,
        <<"a", " ", "B", " ", "c", " ", "d">>>> }

\* n different two-letter words: "aa", "ab", ..., ten to a first letter
LongWords(n) == [k \in 1..n |-> <<Letters[((k - 1) \div 10) + 1], Letters[((k - 1) % 10) + 1]>>]

\* long originals against five of their words in a row: the five words are
\* just above 5 % of the shorter original and exactly 5 % (or less) of the
\* longer one
LongInputs ==
    {<<join(LongWords(n)), join(SubSeq(LongWords(n), 11, 15))>> :
        n \in {LongTokens - 1, LongTokens}}

MatcherInputs ==
    SmallInputs \cup RawInputs \cup DuplicateInputs \cup ScenarioInputs \cup LongInputs

\* a list of k matches of similarity v
Repeated(v, k) == [j \in 1..k |-> [similarity |-> v]]

ScoreInputs ==
    {[j \in 1..Len(q) |-> [similarity |-> q[j]]] : q \in SeqsUpTo(SimilarityValues, MaxScoreMatches)}
    \cup {Repeated(v, k) : v \in SimilarityValues, k \in 0..MaxRepeat}

NoResult == [overallSimilarity |-> RatInt(0), matches |-> <<>>]

\* The submitted text: forty different words in two sentences,
\* "A b c ... t. u v ... z 0 1 ... 9 aa bb cc dd".
CheckWords ==
    [k \in 1..40 |-> IF k <= 26 THEN <<Letters[k]>>
                     ELSE IF k <= 36 THEN <<Digits[k - 26]>>
                     ELSE <<Letters[k - 36], Letters[k - 36]>>]
CheckText ==
    <<"A">> \o Tail(join(SubSeq(CheckWords, 1, 20))) \o <<".", " ">>
            \o join(SubSeq(CheckWords, 21, 40))
CheckTexts == {CheckText}

\* The pages of the encyclopedia: pageid -> page data.
\*   1: five words of the text in a row (12.5 % of it)
\*   2: four words of the text in a row (exactly 10 % of it)
\*   3: eight words in a row and five words in a row (20 % and 12.5 %)
PageIds == {1, 2, 3}
PageData ==
    [p \in PageIds |->
        CASE p = 1 -> [title |-> <<"A", " ", "b">>,
                       extract |-> <<"F">> \o Tail(join(SubSeq(CheckWords, 6, 10))) \o <<".">>]
          [] p = 2 -> [title |-> <<"C">>,
                       extract |-> join(SubSeq(CheckWords, 13, 16))]
          [] p = 3 -> [title |-> <<"D", " ", "e">>,
                       extract |-> join(SubSeq(CheckWords, 17, 21)) \o <<",", " ">>
                                   \o join(<<<<"t", "h", "e", "n">>>>) \o <<" ">>
                                   \o join(SubSeq(CheckWords, 28, 35))]]

\* the outcomes of a search fetch
SearchFailure(kind) == [kind |-> kind, search |-> <<>>]
SearchOk(ids) == [kind |-> "ok",
                  search |-> [k \in 1..Len(ids) |->
                                [title |-> PageData[ids[k]].title, pageid |-> ids[k]]]]

\* the outcomes of an extract fetch
ContentFailure(kind) == [kind |-> kind, pages |-> <<>>]
ContentOk(p) == [kind |-> "ok", pages |-> (p :> PageData[p])]
ContentMissing == [kind |-> "ok", pages |-> (-1 :> [title |-> <<>>, extract |-> <<>>])]
ContentNoExtract(p) == [kind |-> "ok", pages |-> (p :> [PageData[p] EXCEPT !.extract = <<>>])]
ContentNoTitle(p) == [kind |-> "ok", pages |-> (p :> [PageData[p] EXCEPT !.title = Undefined])]

\* the networks explored: what each fetch answers
SearchResponses ==
    {<<r1, r2>> :
        r1 \in {SearchFailure("neterr"), SearchFailure("notok"),
                SearchOk(<<1, 2>>), SearchOk(<<3, 1>>)},
        r2 \in {SearchFailure("malformed"), SearchOk(<<2, 3>>), SearchOk(<<>>)}}
ContentResponses ==
    {(1 :> c1) @@ (2 :> c2) @@ (3 :> c3) :
        c1 \in {ContentOk(1), ContentFailure("neterr"), ContentFailure("notok"),
                ContentMissing, ContentNoExtract(1)},
        c2 \in {ContentOk(2), ContentFailure("neterr")},
        c3 \in {ContentOk(3), ContentFailure("notok"), ContentNoTitle(3)}}
NotReturned == [returned |-> FALSE]
Returned(v) == [returned |-> TRUE, value |-> v]

---------------------------------------------------------------------------
(* The entry points that a behaviour does not exercise stay idle.          *)

IdleMatcher ==
    /\ originalText = <<>> /\ sourceText = <<>>
    /\ pc = "idle"
    /\ normalizedSource = <<>> /\ originalWords = <<>> /\ sourceWords = <<>>
    /\ windowSize = 0 /\ i = 0
    /\ matches = <<>> /\ coveredRanges = <<>>
    /\ result = NoResult

IdleScore == scoreArg = <<>> /\ scoreRet = NotReturned

IdleCheck ==
    /\ text = <<>>
    /\ searchResponse = <<>> /\ contentResponse = <<>>
    /\ cpc = "idle"
    /\ searchTerms = <<>> /\ searchResults = <<>>
    /\ flatResults = <<>> /\ articleContents = <<>>
    /\ plagResult = NoResult
    /\ settleOrder = <<>>

\* no checkPlagiarism promise is awaited
NoCall == [state |-> "none"]

IdleUi ==
    /\ uiText = <<>> /\ isChecking = FALSE /\ results = Null
    /\ call = NoCall /\ calls = 0 /\ lastToast = "none"

IdleHighlighter ==
    /\ hlText = <<>> /\ hlMatches = <<>>
    /\ hpc = "idle"
    /\ sortedMatches = <<>> /\ matchIndex = 0 /\ lastIndex = 0
    /\ highlightedRanges = <<>> /\ rendered = <<>>

IdleView == IdleUi /\ IdleHighlighter

---------------------------------------------------------------------------
(* findAllSimilarities as a process.                                       *)

InitMatcher ==
    /\ mode = "matcher"
    /\ \E inp \in MatcherInputs : originalText = inp[1] /\ sourceText = inp[2]
    /\ pc = "call"
    /\ normalizedSource = <<>>
    /\ originalWords = <<>>
    /\ sourceWords = <<>>
    /\ windowSize = 0
    /\ i = 0
    /\ matches = <<>>
    /\ coveredRanges = <<>>
    /\ result = NoResult
    /\ IdleScore /\ IdleCheck
    /\ IdleView

\* normalize both texts, split them, enter the outer loop
Normalize ==
    /\ mode = "matcher" /\ pc = "call"
    /\ normalizedSource' = normalizeText(sourceText)
    /\ originalWords' = split(normalizeText(originalText))
    /\ sourceWords' = split(normalizedSource')
    /\ windowSize' = Min(MaxWindow, Len(originalWords'))
    /\ i' = 0
    /\ pc' = "scan"
    /\ UNCHANGED <<mode, originalText, sourceText, matches, coveredRanges, result>>
    /\ UNCHANGED <<scoreVars, checkVars>>
    /\ UNCHANGED viewVars

\* one iteration of the inner loop
ScanWindow ==
    /\ mode = "matcher" /\ pc = "scan"
    /\ windowSize >= MinWindow
    /\ i <= Len(originalWords) - windowSize
    /\ LET b == LoopBody(originalText, originalWords, sourceWords, normalizedSource,
                         windowSize, i, matches, coveredRanges)
       IN /\ matches' = b.matches
          /\ coveredRanges' = b.coveredRanges
    /\ i' = i + 1
    /\ UNCHANGED <<mode, originalText, sourceText, pc, normalizedSource,
                   originalWords, sourceWords, windowSize, result>>
    /\ UNCHANGED <<scoreVars, checkVars>>
    /\ UNCHANGED viewVars

\* the inner loop ends: windowSize--
NextWindow ==
    /\ mode = "matcher" /\ pc = "scan"
    /\ windowSize >= MinWindow
    /\ i > Len(originalWords) - windowSize
    /\ windowSize' = windowSize - 1
    /\ i' = 0
    /\ UNCHANGED <<mode, originalText, sourceText, pc, normalizedSource,
                   originalWords, sourceWords, matches, coveredRanges, result>>
    /\ UNCHANGED <<scoreVars, checkVars>>
    /\ UNCHANGED viewVars

\* the outer loop ends: coverage, sort (in place), return
Return ==
    /\ mode = "matcher" /\ pc = "scan"
    /\ windowSize < MinWindow
    /\ result' = MatcherResult(matches, coveredRanges, Len(originalWords))
    /\ matches' = result'.matches
    /\ pc' = "done"
    /\ UNCHANGED <<mode, originalText, sourceText, normalizedSource, originalWords,
                   sourceWords, windowSize, i, coveredRanges>>
    /\ UNCHANGED <<scoreVars, checkVars>>
    /\ UNCHANGED viewVars

NextMatcher == Normalize \/ ScanWindow \/ NextWindow \/ Return

SpecMatcher == InitMatcher /\ [][NextMatcher]_vars

---------------------------------------------------------------------------
(* calculateOverallSimilarity as a process.                                *)

InitScore ==
    /\ mode = "score"
    /\ scoreArg \in ScoreInputs
    /\ scoreRet = NotReturned
    /\ IdleMatcher /\ IdleCheck
    /\ IdleView

Score ==
    /\ mode = "score" /\ scoreRet = NotReturned
    /\ scoreRet' = Returned(calculateOverallSimilarity(scoreArg))
    /\ UNCHANGED <<mode, scoreArg, matcherVars, checkVars>>
    /\ UNCHANGED viewVars

NextScore == Score

SpecScore == InitScore /\ [][NextScore]_vars

---------------------------------------------------------------------------
(* checkPlagiarism as a process.  Its fetches settle in any order.         *)

InitCheck ==
    /\ mode = "check"
    /\ text \in CheckTexts
    /\ searchResponse \in SearchResponses
    /\ contentResponse \in ContentResponses
    /\ cpc = "call"
    /\ searchTerms = <<>> /\ searchResults = <<>>
    /\ flatResults = <<>> /\ articleContents = <<>>
    /\ plagResult = NoResult
    /\ settleOrder = <<>>
    /\ IdleMatcher /\ IdleScore
    /\ IdleView

\* extractSearchTerms, then one searchWikipedia per term
StartSearch ==
    /\ mode = "check" /\ cpc = "call"
    /\ searchTerms' = extractSearchTerms(text)
    /\ searchResults' = [k \in 1..Len(searchTerms') |-> Pending]
    /\ cpc' = "searching"
    /\ UNCHANGED <<mode, text, searchResponse, contentResponse, flatResults,
                   articleContents, plagResult, settleOrder, matcherVars, scoreVars>>
    /\ UNCHANGED viewVars

\* the search of term k settles
SearchSettles(k) ==
    /\ mode = "check" /\ cpc = "searching"
    /\ searchResults[k] = Pending
    /\ searchResults' = [searchResults EXCEPT ![k] = searchWikipedia(searchResponse[k])]
    /\ settleOrder' = Append(settleOrder, <<"search", k>>)
    /\ UNCHANGED <<mode, text, searchResponse, contentResponse, cpc, searchTerms,
                   flatResults, articleContents, plagResult, matcherVars, scoreVars>>
    /\ UNCHANGED viewVars

\* Promise.all of the searches is fulfilled: flatten, then one
\* getWikipediaContent per result
StartFetch ==
    /\ mode = "check" /\ cpc = "searching"
    /\ AllFulfilled(searchResults)
    /\ flatResults' = FlatResults(Values(searchResults))
    /\ articleContents' = [k \in 1..Len(flatResults') |-> Pending]
    /\ cpc' = "fetching"
    /\ UNCHANGED <<mode, text, searchResponse, contentResponse, searchTerms,
                   searchResults, plagResult, settleOrder, matcherVars, scoreVars>>
    /\ UNCHANGED viewVars

\* a variant of ContentSettles: the value of fetch k goes to the first free
\* place of articleContents, so the array fills in order of arrival
ContentSettlesOnArrival(k) ==
    /\ mode = "check" /\ cpc = "fetching"
    /\ \A j \in 1..Len(settleOrder) : settleOrder[j] # <<"content", k>>
    /\ LET slot == Least({j \in 1..Len(articleContents) : articleContents[j] = Pending})
       IN articleContents' =
            [articleContents EXCEPT ![slot] = getWikipediaContent(contentResponse[flatResults[k].pageid],
                                                                  flatResults[k].pageid)]
    /\ settleOrder' = Append(settleOrder, <<"content", k>>)
    /\ UNCHANGED <<mode, text, searchResponse, contentResponse, cpc, searchTerms,
                   searchResults, flatResults, plagResult, matcherVars, scoreVars>>
    /\ UNCHANGED viewVars

\* the extract fetch of result k settles
ContentSettles(k) ==
    /\ mode = "check" /\ cpc = "fetching"
    /\ articleContents[k] = Pending
    /\ articleContents' =
         [articleContents EXCEPT ![k] = getWikipediaContent(contentResponse[flatResults[k].pageid],
                                                            flatResults[k].pageid)]
    /\ settleOrder' = Append(settleOrder, <<"content", k>>)
    /\ UNCHANGED <<mode, text, searchResponse, contentResponse, cpc, searchTerms,
                   searchResults, flatResults, plagResult, matcherVars, scoreVars>>
    /\ UNCHANGED viewVars

\* Promise.all of the extracts is fulfilled: compare, sort, score, return
Resolve ==
    /\ mode = "check" /\ cpc = "fetching"
    /\ AllFulfilled(articleContents)
    /\ ~CompareThrows(text, Values(articleContents))
    /\ plagResult' = PlagiarismResult(CollectMatches(text, Values(articleContents)))
    /\ cpc' = "resolved"
    /\ UNCHANGED <<mode, text, searchResponse, contentResponse, searchTerms,
                   searchResults, flatResults, articleContents, settleOrder,
                   matcherVars, scoreVars>>
    /\ UNCHANGED viewVars

\* catch (error) { toast(...); throw error; }: a rejected Promise.all or a
\* throw in the comparison rejects the check
Reject ==
    /\ mode = "check"
    /\ \/ cpc = "searching" /\ SomeRejected(searchResults)
       \/ cpc = "fetching" /\ SomeRejected(articleContents)
       \/ /\ cpc = "fetching" /\ AllFulfilled(articleContents)
          /\ CompareThrows(text, Values(articleContents))
    /\ cpc' = "rejected"
    /\ UNCHANGED <<mode, text, searchResponse, contentResponse, searchTerms,
                   searchResults, flatResults, articleContents, plagResult,
                   settleOrder, matcherVars, scoreVars>>
    /\ UNCHANGED viewVars

NextCheck ==
    \/ StartSearch
    \/ \E k \in 1..Len(searchResults) : SearchSettles(k)
    \/ StartFetch
    \/ \E k \in 1..Len(articleContents) : ContentSettles(k)
    \/ Resolve
    \/ Reject

SpecCheck == InitCheck /\ [][NextCheck]_vars

---------------------------------------------------------------------------
(* PlagiarismChecker: the form and its submit handler.                     *)

\* n times the character c
Fill(c, n) == [k \in 1..n |-> c]

\* what the user may have typed: around the minimum, with and without
\* white space at the ends
UiTexts ==
    {<<>>,
     Fill("x", MinChars - 1),
     Fill("x", MinChars),
     Fill("x", MinChars - 3) \o Fill(" ", 3),
     Fill(" ", MinChars),
     <<" ">> \o Fill("x", MinChars) \o <<"\n">>}

\* what checkPlagiarism may resolve with
UiResults ==
    {NoResult,
     [overallSimilarity |-> RatInt(64),
      matches |-> <<[source |-> <<"A">>, similarity |-> RatInt(20)]>>]}

\* String.prototype.trim on every white space
trimAll(s) ==
    LET inked == {k \in 1..Len(s) : s[k] \notin SpaceChars}
    IN IF inked = {} THEN <<>>
       ELSE SubSeq(s, CHOOSE k \in inked : \A j \in inked : k <= j,
                      CHOOSE k \in inked : \A j \in inked : k >= j)

\* if (!text.trim() || text.trim().length < 50)
TooShort(t) == trimAll(t) = <<>> \/ Len(trimAll(t)) < MinChars

\* the submit button: disabled={isChecking || text.length < 50}
ButtonEnabled == ~isChecking /\ Len(uiText) >= MinChars

InitUi ==
    /\ mode = "ui"
    /\ uiText = <<>> /\ isChecking = FALSE /\ results = Null
    /\ call = NoCall /\ calls = 0 /\ lastToast = "none"
    /\ IdleMatcher /\ IdleScore /\ IdleCheck /\ IdleHighlighter

\* onChange of the Textarea (disabled while checking)
SetText(v) ==
    /\ mode = "ui" /\ ~isChecking
    /\ uiText' = v
    /\ UNCHANGED <<mode, isChecking, results, call, calls, lastToast>>
    /\ UNCHANGED <<matcherVars, scoreVars, checkVars, hlVars>>

\* handleSubmit, text too short: toast and return
SubmitTooShort ==
    /\ mode = "ui" /\ ButtonEnabled
    /\ TooShort(uiText)
    /\ lastToast' = "short"
    /\ UNCHANGED <<mode, uiText, isChecking, results, call, calls>>
    /\ UNCHANGED <<matcherVars, scoreVars, checkVars, hlVars>>

\* handleSubmit up to the await: setIsChecking(true), setResults(null),
\* checkPlagiarism(text)
SubmitStart ==
    /\ mode = "ui" /\ ButtonEnabled
    /\ ~TooShort(uiText)
    /\ calls < MaxCalls
    /\ isChecking' = TRUE
    /\ results' = Null
    /\ call' = Pending
    /\ calls' = calls + 1
    /\ UNCHANGED <<mode, uiText, lastToast>>
    /\ UNCHANGED <<matcherVars, scoreVars, checkVars, hlVars>>

\* the promise of checkPlagiarism settles
CheckSettles ==
    /\ mode = "ui" /\ call = Pending
    /\ \/ \E r \in UiResults : call' = Fulfilled(r)
       \/ call' = Rejected
    /\ UNCHANGED <<mode, uiText, isChecking, results, calls, lastToast>>
    /\ UNCHANGED <<matcherVars, scoreVars, checkVars, hlVars>>

\* a variant of AfterAwait: setIsChecking(false) at the end of the try
\* block, no finally
AfterAwaitNoFinally ==
    /\ mode = "ui" /\ call \notin {NoCall, Pending}
    /\ IF call = Rejected
       THEN lastToast' = "error" /\ UNCHANGED <<results, isChecking>>
       ELSE results' = call.value /\ isChecking' = FALSE /\ UNCHANGED lastToast
    /\ call' = NoCall
    /\ UNCHANGED <<mode, uiText, calls>>
    /\ UNCHANGED <<matcherVars, scoreVars, checkVars, hlVars>>

\* handleSubmit after the await: setResults or catch (toast), then finally
AfterAwait ==
    /\ mode = "ui" /\ call \notin {NoCall, Pending}
    /\ IF call = Rejected
       THEN lastToast' = "error" /\ UNCHANGED results
       ELSE results' = call.value /\ UNCHANGED lastToast
    /\ isChecking' = FALSE
    /\ call' = NoCall
    /\ UNCHANGED <<mode, uiText, calls>>
    /\ UNCHANGED <<matcherVars, scoreVars, checkVars, hlVars>>

NextUi ==
    \/ \E v \in UiTexts : SetText(v)
    \/ SubmitTooShort
    \/ SubmitStart
    \/ CheckSettles
    \/ AfterAwait

\* a pending promise settles and the handler then goes on
SpecUi == InitUi /\ [][NextUi]_vars /\ WF_vars(CheckSettles) /\ WF_vars(AfterAwait)

---------------------------------------------------------------------------
(* PlagiarizedTextHighlighter.renderHighlightedText.                       *)

\* the characters escapeRegExp puts a backslash before
RegExpSpecials == {".", "*", "+", "?", "^", "$", "{", "}", "(", ")", "|", "[", "]", "\\"}

\* escapeRegExp: string.replace(/[.*+?^${}()|[\]\\]/g, '\\$&')
RECURSIVE escapeRegExp(_)
escapeRegExp(s) ==
    IF s = <<>> THEN <<>>
    ELSE (IF Head(s) \in RegExpSpecials THEN <<"\\", Head(s)>> ELSE <<Head(s)>>)
         \o escapeRegExp(Tail(s))

\* new RegExp(source, 'gi') for the sources met here: a backslash makes the
\* next character literal, a bare dot matches any character but a line
\* end, any other character is literal
RECURSIVE ParsePattern(_)
ParsePattern(src) ==
    IF src = <<>> THEN <<>>
    ELSE IF Head(src) = "\\" /\ Len(src) >= 2
         THEN <<[any |-> FALSE, char |-> src[2]]>> \o ParsePattern(Tail(Tail(src)))
    ELSE IF Head(src) = "."
         THEN <<[any |-> TRUE, char |-> "."]>> \o ParsePattern(Tail(src))
    ELSE <<[any |-> FALSE, char |-> Head(src)]>> \o ParsePattern(Tail(src))

\* the i flag: characters match when their lower cases are equal
AtomMatches(atom, c) ==
    IF atom.any THEN c # "\n"
    ELSE toLowerCase(<<atom.char>>) = toLowerCase(<<c>>)

\* regex.exec(str) from lastIndex: the 0-based index of the first match at
\* or after from, or -1
execIndex(atoms, str, from) ==
    LET hits == {p \in from..(Len(str) - Len(atoms)) :
                   \A j \in 1..Len(atoms) : AtomMatches(atoms[j], str[p + j])}
    IN IF hits = {} THEN -1 ELSE CHOOSE p \in hits : \A q \in hits : p <= q

\* [...matches].sort((a, b) => b.matchedText.length - a.matchedText.length)
SortByLength(ms) ==
    LET Before(j, k) == \/ Len(ms[j].matchedText) > Len(ms[k].matchedText)
                        \/ (j < k /\ Len(ms[j].matchedText) = Len(ms[k].matchedText))
        Place(k) == Cardinality({j \in 1..Len(ms) : Before(j, k)}) + 1
    IN [p \in 1..Len(ms) |-> ms[CHOOSE k \in 1..Len(ms) : Place(k) = p]]

\* a variant of Overlapping: the test of the end of the new range is left out
OverlappingNoEndTest(ranges, start, end) ==
    \E k \in 1..Len(ranges) :
        \/ (start >= ranges[k].start /\ start < ranges[k].end)
        \/ (start <= ranges[k].start /\ end >= ranges[k].end)

\* highlightedRanges.some(range => ...)
Overlapping(ranges, start, end) ==
    \E k \in 1..Len(ranges) :
        \/ (start >= ranges[k].start /\ start < ranges[k].end)
        \/ (end > ranges[k].start /\ end <= ranges[k].end)
        \/ (start <= ranges[k].start /\ end >= ranges[k].end)

\* highlightedRanges.sort((a, b) => a.start - b.start)
SortByStart(rs) ==
    LET Before(j, k) == \/ rs[j].start < rs[k].start
                        \/ (j < k /\ rs[j].start = rs[k].start)
        Place(k) == Cardinality({j \in 1..Len(rs) : Before(j, k)}) + 1
    IN [p \in 1..Len(rs) |-> rs[CHOOSE k \in 1..Len(rs) : Place(k) = p]]

PlainSpan(t) == [highlight |-> FALSE, text |-> t]
HighlightSpan(t) == [highlight |-> TRUE, text |-> t]

\* highlightedRanges.forEach from range k on, with lastPos, then the
\* remaining text
RECURSIVE BuildSpans(_, _, _, _)
BuildSpans(str, rs, k, lastPos) ==
    IF k > Len(rs)
    THEN IF lastPos < Len(str) THEN <<PlainSpan(substring(str, lastPos, Len(str)))>> ELSE <<>>
    ELSE (IF rs[k].start > lastPos
          THEN <<PlainSpan(substring(str, lastPos, rs[k].start))>> ELSE <<>>)
         \o <<HighlightSpan(substring(str, rs[k].start, rs[k].end))>>
         \o BuildSpans(str, rs, k + 1, rs[k].end)

\* short texts with capitals, and texts with a dot
HlTexts ==
    SeqsUpTo({"a", "A", "b"}, MaxHlLen)
    \cup {<<"a", ".", "b">>, <<"a", "x", "b", ".">>, <<"a", "a", "b", ".">>}

HlMatchTexts ==
    (SeqsUpTo({"a", "B"}, MaxMatchLen) \cup {<<".">>, <<"a", ".", "b">>}) \ {<<>>}

HlMatchLists ==
    {[k \in 1..Len(q) |-> [matchedText |-> q[k]]] : q \in SeqsUpTo(HlMatchTexts, MaxHlMatches)}

InitHighlighter ==
    /\ mode = "highlight"
    /\ hlText \in HlTexts
    /\ hlMatches \in HlMatchLists
    /\ hpc = "call"
    /\ sortedMatches = <<>> /\ matchIndex = 0 /\ lastIndex = 0
    /\ highlightedRanges = <<>> /\ rendered = <<>>
    /\ IdleMatcher /\ IdleScore /\ IdleCheck /\ IdleUi

\* if (!matches || matches.length === 0) return originalText
RenderPlain ==
    /\ mode = "highlight" /\ hpc = "call"
    /\ Len(hlMatches) = 0
    /\ rendered' = <<PlainSpan(hlText)>>
    /\ hpc' = "done"
    /\ UNCHANGED <<mode, hlText, hlMatches, sortedMatches, matchIndex, lastIndex,
                   highlightedRanges>>
    /\ UNCHANGED <<matcherVars, scoreVars, checkVars, uiVars>>

\* sort the matches by length, start the forEach
SortMatches ==
    /\ mode = "highlight" /\ hpc = "call"
    /\ Len(hlMatches) > 0
    /\ sortedMatches' = SortByLength(hlMatches)
    /\ matchIndex' = 0 /\ lastIndex' = 0
    /\ hpc' = "exec"
    /\ UNCHANGED <<mode, hlText, hlMatches, highlightedRanges, rendered>>
    /\ UNCHANGED <<matcherVars, scoreVars, checkVars, uiVars>>

\* one regex.exec(result) of the while loop: a hit is pushed unless it
\* overlaps, no hit ends the loop of this match
Exec ==
    /\ mode = "highlight" /\ hpc = "exec"
    /\ matchIndex < Len(sortedMatches)
    /\ LET match == sortedMatches[matchIndex + 1]
           atoms == ParsePattern(escapeRegExp(match.matchedText))
           start == execIndex(atoms, hlText, lastIndex)
           end == start + Len(match.matchedText)
       IN IF start = -1
          THEN /\ matchIndex' = matchIndex + 1
               /\ lastIndex' = 0
               /\ UNCHANGED highlightedRanges
          ELSE /\ lastIndex' = start + Len(atoms)
               /\ highlightedRanges' =
                    IF Overlapping(highlightedRanges, start, end)
                    THEN highlightedRanges
                    ELSE Append(highlightedRanges, [start |-> start, end |-> end])
               /\ UNCHANGED matchIndex
    /\ UNCHANGED <<mode, hlText, hlMatches, hpc, sortedMatches, rendered>>
    /\ UNCHANGED <<matcherVars, scoreVars, checkVars, uiVars>>

\* sort the ranges by start, build the spans, return
BuildResult ==
    /\ mode = "highlight" /\ hpc = "exec"
    /\ matchIndex = Len(sortedMatches)
    /\ highlightedRanges' = SortByStart(highlightedRanges)
    /\ rendered' = BuildSpans(hlText, highlightedRanges', 1, 0)
    /\ hpc' = "done"
    /\ UNCHANGED <<mode, hlText, hlMatches, sortedMatches, matchIndex, lastIndex>>
    /\ UNCHANGED <<matcherVars, scoreVars, checkVars, uiVars>>

NextHighlighter == RenderPlain \/ SortMatches \/ Exec \/ BuildResult

SpecHighlighter == InitHighlighter /\ [][NextHighlighter]_vars

---------------------------------------------------------------------------
(* Every entry point of the plagiarism service.                           *)

Init == InitMatcher \/ InitScore \/ InitCheck

Next == NextMatcher \/ NextScore \/ NextCheck

Spec == Init /\ [][Next]_vars

---------------------------------------------------------------------------

\* the process and the function compute the same result
MatcherAgrees ==
    (mode = "matcher" /\ pc = "done") => result = findAllSimilarities(originalText, sourceText)

---------------------------------------------------------------------------
(* Properties of findAllSimilarities.                                      *)

\* two ranges of token indices share an index
Overlap(r, q) == r.start <= q.end /\ q.start <= r.end

InRange(v) == RatLeq(RatInt(0), v) /\ RatLeq(v, RatInt(100))

\* C1: the recorded covered ranges of one run are pairwise non-overlapping:
\* no original token index lies in two of them.
C1_RangesDisjoint ==
    mode = "matcher" =>
        \A a, b \in 1..Len(coveredRanges) :
            a < b => ~Overlap(coveredRanges[a], coveredRanges[b])

\* C2: a text compared with itself gets overallSimilarity >= 95 and a match
\* of similarity 100.  Stated for texts of at least four tokens, the
\* shortest that hold a window; shorter ones give the empty result.
C2_ExactDuplicate ==
    (mode = "matcher" /\ pc = "done" /\ sourceText = originalText
                      /\ Len(originalWords) >= 4) =>
        /\ RatLeq(RatInt(95), result.overallSimilarity)
        /\ \E k \in 1..Len(result.matches) : result.matches[k].similarity = RatInt(100)

\* C3: every score is in [0, 100]: the overallSimilarity and every match
\* similarity of findAllSimilarities, and the value of
\* calculateOverallSimilarity (kept squared, so in [0, 100 * 100]) for
\* matches of similarities in [0, 100].
C3_ScoresInRange ==
    /\ mode = "matcher" =>
          /\ InRange(result.overallSimilarity)
          /\ \A k \in 1..Len(matches) : InRange(matches[k].similarity)
          /\ \A k \in 1..Len(result.matches) : InRange(result.matches[k].similarity)
    /\ (mode = "score" /\ scoreRet # NotReturned
                       /\ \A k \in 1..Len(scoreArg) : InRange(scoreArg[k].similarity)) =>
          /\ RatLeq(RatInt(0), scoreRet.value)
          /\ RatLeq(scoreRet.value, RatInt(100 * 100))

\* a run whose ranges add up to more tokens than the original has, so that
\* only the clamp keeps overallSimilarity at 100
C3_ClampBites ==
    /\ mode = "matcher" /\ pc = "done"
    /\ TotalCoverage(coveredRanges) > Len(originalWords)
    /\ result.overallSimilarity = RatInt(100)

\* C4: when the normalized original has fewer than 4 tokens, or the
\* normalized source is empty, the run records nothing and returns exactly
\* {overallSimilarity: 0, matches: []}.
C4_EmptyResult ==
    (mode = "matcher" /\ pc # "call"
        /\ (Len(originalWords) < 4 \/ normalizedSource = <<>>)) =>
        /\ matches = <<>> /\ coveredRanges = <<>>
        /\ pc = "done" => result = NoResult

\* a three-token original that the source holds verbatim, and the empty result
C4_ShortOriginalInSource ==
    /\ mode = "matcher" /\ pc = "done"
    /\ Len(originalWords) = 3
    /\ originalWords[1] # <<>>
    /\ indexOf(normalizedSource, join(originalWords)) >= 0
    /\ result = NoResult

\* C5: no two recorded matches start at the same original token index: a
\* start index accepted at one window size records nothing at a smaller one.
\* (The k-th match is the one recorded with the k-th range.)
C5_DistinctStarts ==
    mode = "matcher" =>
        /\ pc = "scan" => Len(matches) = Len(coveredRanges)
        /\ Len(result.matches) <= Len(coveredRanges)
        /\ \A a, b \in 1..Len(coveredRanges) :
              a < b => coveredRanges[a].start # coveredRanges[b].start

\* the loop stands at a start index that already begins a recorded range,
\* with a smaller window whose phrase the source holds
C5_SameStartSkipped ==
    /\ mode = "matcher" /\ pc = "scan"
    /\ windowSize >= MinWindow
    /\ i <= Len(originalWords) - windowSize
    /\ \E r \in 1..Len(coveredRanges) :
          /\ coveredRanges[r].start = i
          /\ coveredRanges[r].end - coveredRanges[r].start + 1 > windowSize
    /\ indexOf(normalizedSource, join(slice(originalWords, i, i + windowSize))) >= 0
    /\ IsSignificant(SimilarityScore(windowSize, Len(originalWords)))

---------------------------------------------------------------------------
(* Properties of calculateOverallSimilarity.                               *)

\* C6: calculateOverallSimilarity returns 0 for an empty list and otherwise
\* min(sqrt(S * min(n, 5)) * 0.8, 100), S the sum of the similarities and n
\* their count.  With v the square of the value returned:
\* v = min(S * min(n, 5) * 16 / 25, 100 * 100); five matches of similarity
\* 20 give v = 320.
C6_ScoreFormula ==
    (mode = "score" /\ scoreRet # NotReturned) =>
        LET n == Len(scoreArg)
            S == TotalSimilarity(scoreArg)
            w == IF n > 5 THEN 5 ELSE n
            v == scoreRet.value
        IN /\ n = 0 => v = RatInt(0)
           /\ n > 0 =>
                IF S.num * w * 16 >= 100 * 100 * 25 * S.den
                THEN v = RatInt(100 * 100)
                ELSE v.num * 25 * S.den = S.num * w * 16 * v.den
           /\ scoreArg = Repeated(RatInt(20), 5) => v = RatInt(320)

\* more than five matches, scored below the cap: the count weighs as 5
C6_Saturated ==
    /\ mode = "score" /\ scoreRet # NotReturned
    /\ Len(scoreArg) > 5
    /\ scoreRet.value # RatInt(0)
    /\ RatLess(scoreRet.value, RatInt(100 * 100))

---------------------------------------------------------------------------
(* Properties of checkPlagiarism.                                          *)

\* how often x occurs in the sequence q
Count(q, x) == Cardinality({k \in 1..Len(q) : q[k] = x})

Elements(q) == {q[k] : k \in 1..Len(q)}

IsPermutation(p, q) ==
    /\ Len(p) = Len(q)
    /\ \A x \in Elements(p) \cup Elements(q) : Count(p, x) = Count(q, x)

IsSorted(ms) ==
    \A k \in 1..(Len(ms) - 1) : RatLeq(ms[k + 1].similarity, ms[k].similarity)

\* the matches of the result tagged with a title
TaggedWith(title) ==
    SelectSeq(plagResult.matches, LAMBDA m : m.source = title)

C8_SortedPermutation ==
    [][ /\ (mode = "matcher" /\ pc = "scan" /\ pc' = "done") =>
              /\ IsSorted(result'.matches)
              /\ IsPermutation(matches, result'.matches)
        /\ (mode = "check" /\ cpc = "fetching" /\ cpc' = "resolved") =>
              /\ IsSorted(plagResult'.matches)
              /\ IsPermutation(CollectMatches(text, Values(articleContents)),
                               plagResult'.matches)
      ]_vars

\* a resolved check whose sort moved a match
C8_SortMoved ==
    /\ mode = "check" /\ cpc = "resolved"
    /\ Len(plagResult.matches) >= 2
    /\ plagResult.matches # CollectMatches(text, Values(articleContents))

\* the extract fetch of page p fails: network error, non-OK response,
\* missing page or missing extract
ContentFailed(p) ==
    \/ contentResponse[p].kind # "ok"
    \/ p \notin DOMAIN contentResponse[p].pages
    \/ contentResponse[p].pages[p].extract = <<>>

SearchFailed(k) == searchResponse[k].kind # "ok"

\* C9: a failed search or extract fetch contributes no match and does not
\* reject the check: the check resolves with every match of the sources
\* that did not fail.  (A rejection comes only from a page without title.)
C9_FailureIsolation ==
    mode = "check" =>
        /\ cpc = "rejected" =>
              \E p \in PageIds : /\ ~ContentFailed(p)
                                 /\ contentResponse[p].pages[p].title = Undefined
        /\ cpc \in {"fetching", "resolved"} =>
              \A k \in 1..Len(searchResponse) :
                 ~SearchFailed(k) =>
                    \A j \in 1..Len(searchResponse[k].search) :
                       \E f \in 1..Len(flatResults) :
                          flatResults[f] = searchResponse[k].search[j]
        /\ cpc = "resolved" =>
              /\ \A p \in PageIds :
                    ContentFailed(p) => TaggedWith(PageData[p].title) = <<>>
              /\ \A f \in 1..Len(flatResults) :
                    LET p == flatResults[f].pageid
                    IN ~ContentFailed(p) =>
                         LET ms == ArticleMatches(text, [title |-> contentResponse[p].pages[p].title,
                                                         extract |-> contentResponse[p].pages[p].extract,
                                                         pageid |-> p])
                         IN \A j \in 1..Len(ms) : Count(plagResult.matches, ms[j]) = 1

\* a resolved check with a failed search, a failed extract fetch and
\* matches of a sibling source
C9_SiblingsKept ==
    /\ mode = "check" /\ cpc = "resolved"
    /\ \E k \in 1..Len(searchResponse) : SearchFailed(k)
    /\ \E f \in 1..Len(flatResults) : ContentFailed(flatResults[f].pageid)
    /\ plagResult.matches # <<>>

\* the check computed with every fetch taken in index order
SequentialSearches ==
    [k \in 1..Len(extractSearchTerms(text)) |-> searchWikipedia(searchResponse[k]).value]
SequentialArticles ==
    LET flat == FlatResults(SequentialSearches)
    IN [k \in 1..Len(flat) |->
          getWikipediaContent(contentResponse[flat[k].pageid], flat[k].pageid).value]

\* C10: for fixed responses the outcome of checkPlagiarism is the same for
\* every order in which the fetches settle: it is the outcome computed
\* with the fetches taken in index order, overallSimilarity and order of
\* matches (ties included).
C10_OrderIndependent ==
    mode = "check" =>
        /\ cpc = "resolved" =>
              /\ ~CompareThrows(text, SequentialArticles)
              /\ plagResult = PlagiarismResult(CollectMatches(text, SequentialArticles))
        /\ cpc = "rejected" => CompareThrows(text, SequentialArticles)

\* a resolved check whose fetches settled out of index order, with two
\* matches of equal similarity in the result
C10_OutOfOrder ==
    /\ mode = "check" /\ cpc = "resolved"
    /\ \E a, b \in 1..Len(settleOrder) :
          /\ a < b
          /\ settleOrder[a][1] = "search" /\ settleOrder[b][1] = "search"
          /\ settleOrder[a][2] > settleOrder[b][2]
    /\ \E a, b \in 1..Len(settleOrder) :
          /\ a < b
          /\ settleOrder[a][1] = "content" /\ settleOrder[b][1] = "content"
          /\ settleOrder[a][2] > settleOrder[b][2]
    /\ \E k \in 1..(Len(plagResult.matches) - 1) :
          /\ plagResult.matches[k].similarity = plagResult.matches[k + 1].similarity
          /\ plagResult.matches[k].source # plagResult.matches[k + 1].source

---------------------------------------------------------------------------
(* Properties of normalizeText.                                            *)

\* C11: normalizeText is idempotent: normalizing a normalized text returns
\* it unchanged, and so its split on single spaces is the same after one or
\* two normalizations.
C11_Idempotent ==
    mode = "matcher" =>
        \A x \in {originalText, sourceText} :
            /\ normalizeText(normalizeText(x)) = normalizeText(x)
            /\ split(normalizeText(normalizeText(x))) = split(normalizeText(x))

\* a run that normalized a source with something to remove
C11_SourceChanged ==
    /\ mode = "matcher" /\ pc = "scan"
    /\ normalizedSource # sourceText
    /\ normalizedSource # <<>>
    /\ normalizeText(normalizedSource) = normalizedSource

\* C14: a normalized text holds only lowercase letters, digits and single
\* spaces, with no space at either end and no two spaces in a row: every
\* other character (punctuation, underscore, symbols) is removed.
C14_OutputAlphabet ==
    mode = "matcher" =>
        \A x \in {originalText, sourceText} :
            LET n == normalizeText(x)
            IN /\ \A k \in 1..Len(n) : n[k] \in LowerChars \cup DigitChars \cup {" "}
               /\ n # <<>> => (n[1] # " " /\ n[Len(n)] # " ")
               /\ \A k \in 1..(Len(n) - 1) : ~(n[k] = " " /\ n[k + 1] = " ")

---------------------------------------------------------------------------
(* Properties of the loop body of findAllSimilarities.                     *)

\* the words of the k-th recorded range, joined by single spaces
RunText(k) ==
    LET r == coveredRanges[k]
        ws == [j \in 1..(r.end - r.start + 1) |-> originalWords[r.start + j]]
    IN join(ws)

\* needle is in hay at 0-based offset p
OccursAt(hay, needle, p) ==
    /\ p >= 0 /\ p + Len(needle) <= Len(hay)
    /\ \A j \in 1..Len(needle) : hay[p + j] = needle[j]

Occurs(hay, needle) == \E p \in 0..Len(hay) : OccursAt(hay, needle, p)

\* C12: a recorded match is extended token by token exactly while the next
\* original token equals the source token that follows the matched text in
\* the source: the extended run is a contiguous run of the source where it
\* was found, and it does not stop before a source token that equals the
\* next original token.
C12_GreedyExtension ==
    (mode = "matcher" /\ pc = "scan") =>
        \A k \in 1..Len(coveredRanges) :
            LET run == RunText(k)
                p == matches[k].sourceIndex
                next == coveredRanges[k].end + 1
            IN /\ OccursAt(normalizedSource, run, p)
               /\ (next < Len(originalWords)
                     /\ (p = 0 \/ normalizedSource[p] = " ")) =>
                    LET more == run \o <<" ">> \o originalWords[next + 1]
                    IN ~(/\ OccursAt(normalizedSource, more, p)
                         /\ \/ p + Len(more) = Len(normalizedSource)
                            \/ normalizedSource[p + Len(more) + 1] = " ")

\* C13: a found candidate is recorded, as a match and as the covered range
\* [i, extendedEnd - 1], iff its similarityScore is strictly greater than 5;
\* otherwise neither is added and the start index stays free for smaller
\* windows.  Hence every returned match has similarity > 5 and at least 4
\* tokens, and there are as many returned matches as covered ranges.
C13_RecordingThreshold ==
    [][ /\ (mode = "matcher" /\ pc = "scan" /\ pc' = "scan" /\ i' = i + 1) =>
              LET phrase == join(slice(originalWords, i, i + windowSize))
                  found == ~IsCovered(coveredRanges, i) /\ Occurs(normalizedSource, phrase)
                  c == Candidate(originalText, originalWords, sourceWords, normalizedSource,
                                 windowSize, i, phrase, indexOf(normalizedSource, phrase))
                  matchLength == c.range.end - c.range.start + 1
              IN IF found /\ matchLength * 100 > 5 * Len(originalWords)
                 THEN /\ matches' = Append(matches, c.match)
                      /\ coveredRanges' = Append(coveredRanges, c.range)
                      /\ c.range.start = i
                 ELSE /\ matches' = matches
                      /\ coveredRanges' = coveredRanges
                      /\ found => ~IsCovered(coveredRanges', i)
        /\ (mode = "matcher" /\ pc = "scan" /\ pc' = "done") =>
              /\ Len(result'.matches) = Len(coveredRanges)
              /\ \A k \in 1..Len(result'.matches) :
                    RatLess(RatInt(5), result'.matches[k].similarity)
              /\ \A k \in 1..Len(coveredRanges) :
                    coveredRanges[k].end - coveredRanges[k].start + 1 >= 4
      ]_vars

\* a start index whose five-word candidate was found at exactly 5 % and not
\* recorded, tried again at window size 4
C13_TriedAgain ==
    /\ mode = "matcher" /\ pc = "scan"
    /\ windowSize = 4
    /\ i <= Len(originalWords) - windowSize
    /\ Len(originalWords) * 5 = 5 * 100
    /\ Occurs(normalizedSource, join(slice(originalWords, i, i + 5)))
    /\ ~IsCovered(coveredRanges, i)
    /\ Occurs(normalizedSource, join(slice(originalWords, i, i + windowSize)))

\* C15: for every recorded match, when the extended phrase occurs in the
\* lowercased raw original, matchedText is the raw text from the first
\* occurrence over the length of the phrase plus 20 characters, cut off at
\* the end of the text; otherwise matchedText is the phrase itself.  In
\* both cases matchedText is not empty.
C15_ExcerptRecovery ==
    (mode = "matcher" /\ pc = "scan") =>
        \A k \in 1..Len(matches) :
            LET run == RunText(k)
                lowered == toLowerCase(originalText)
                hits == {p \in 0..Len(originalText) : OccursAt(lowered, run, p)}
                excerpt == matches[k].matchedText
            IN /\ excerpt # <<>>
               /\ hits # {} =>
                    LET p == CHOOSE q \in hits : \A h \in hits : q <= h
                        last == IF p + Len(run) + 20 < Len(originalText)
                                THEN p + Len(run) + 20 ELSE Len(originalText)
                    IN /\ matches[k].originalIndex = p
                       /\ excerpt = [j \in 1..(last - p) |-> originalText[p + j]]
               /\ hits = {} => excerpt = run

\* a match whose phrase is not in the raw original, reported by the phrase
C15_FallBack ==
    /\ mode = "matcher" /\ pc = "done"
    /\ \E k \in 1..Len(result.matches) :
          /\ result.matches[k].originalIndex = -1
          /\ result.matches[k].matchedText # <<>>
          /\ ~Occurs(toLowerCase(originalText), result.matches[k].matchedText)

\* the window of w words at start index idx is a literal substring of the
\* normalized source and is more than 5 % of the original
Hit(w, idx) ==
    /\ w * 100 > 5 * Len(originalWords)
    /\ Occurs(normalizedSource,
              join([j \in 1..w |-> originalWords[idx + j]]))

InSomeRange(idx) ==
    \E k \in 1..Len(coveredRanges) :
        coveredRanges[k].start <= idx /\ idx <= coveredRanges[k].end

\* C16: when the run finishes, for every window size w in 4..min(15, |O|)
\* and every start index i whose window is a hit, token i lies in a covered
\* range; and it does so from the iteration (w, i) on, that is by a range
\* recorded at a window size >= w.
C16_LongestFirst ==
    mode = "matcher" =>
        /\ (pc = "scan" /\ windowSize >= 4 /\ i > 0) =>
              (Hit(windowSize, i - 1) => InSomeRange(i - 1))
        /\ pc = "done" =>
              \A w \in 4..(IF Len(originalWords) < 15 THEN Len(originalWords) ELSE 15) :
                 \A idx \in 0..(Len(originalWords) - w) :
                    Hit(w, idx) => InSomeRange(idx)

\* a finished run with a covered hit that lies inside longer source words
C16_UnalignedHit ==
    /\ mode = "matcher" /\ pc = "done"
    /\ Len(originalWords) >= 4
    /\ \E idx \in 0..(Len(originalWords) - 4) :
          /\ Hit(4, idx)
          /\ indexOfAligned(normalizedSource,
                            join([j \in 1..4 |-> originalWords[idx + j]])) = -1
          /\ InSomeRange(idx)

---------------------------------------------------------------------------
(* Properties of PlagiarismChecker.                                        *)

\* C17: a submit of a trimmed text shorter than 50 characters never calls
\* checkPlagiarism and leaves isChecking and results unchanged; otherwise
\* isChecking becomes true and results null before the call, and isChecking
\* is eventually false again, with results the value resolved, or still
\* null after a rejection.
C17_SubmitLifecycle ==
    /\ [][ mode = "ui" =>
             /\ TooShort(uiText) =>
                   (calls' = calls /\ isChecking' = isChecking /\ results' = results)
             /\ calls' # calls =>
                   /\ Len(trimAll(uiText)) >= 50
                   /\ isChecking' = TRUE /\ results' = Null /\ call' = Pending
             /\ (call # NoCall /\ call' = NoCall) =>
                   /\ isChecking' = FALSE
                   /\ call = Rejected => results' = Null
                   /\ call # Rejected => results' = call.value
             /\ (call # NoCall /\ call' # NoCall) => (isChecking' /\ results' = Null)
       ]_vars
    /\ [](mode = "ui" => (isChecking <=> call # NoCall))
    /\ ((mode = "ui" /\ isChecking) ~> (mode = "ui" /\ ~isChecking))

\* a second check that was rejected: not checking any more, results null
C17_RejectedCheckEnded ==
    /\ mode = "ui"
    /\ calls = 2
    /\ lastToast = "error"
    /\ ~isChecking
    /\ results = Null

---------------------------------------------------------------------------
(* Properties of PlagiarizedTextHighlighter.                               *)

RECURSIVE ConcatSpans(_)
ConcatSpans(spans) ==
    IF spans = <<>> THEN <<>> ELSE Head(spans).text \o ConcatSpans(Tail(spans))

\* C18: the accepted highlightedRanges are pairwise non-overlapping
\* half-open ranges inside [0, |originalText|], those of a longer
\* matchedText accepted before those of a shorter one; the spans returned,
\* concatenated in order, are originalText, and the highlighted ones are
\* the ranges.
C18_HighlighterPartition ==
    mode = "highlight" =>
        /\ \A k \in 1..Len(highlightedRanges) :
              /\ 0 <= highlightedRanges[k].start
              /\ highlightedRanges[k].start < highlightedRanges[k].end
              /\ highlightedRanges[k].end <= Len(hlText)
        /\ \A j, k \in 1..Len(highlightedRanges) :
              j < k => \/ highlightedRanges[j].end <= highlightedRanges[k].start
                       \/ highlightedRanges[k].end <= highlightedRanges[j].start
        /\ hpc = "exec" =>
              \A j, k \in 1..Len(highlightedRanges) :
                 j < k => highlightedRanges[j].end - highlightedRanges[j].start
                            >= highlightedRanges[k].end - highlightedRanges[k].start
        /\ hpc = "done" =>
              /\ ConcatSpans(rendered) = hlText
              /\ LET marked == SelectSeq(rendered, LAMBDA sp : sp.highlight)
                 IN /\ Len(marked) = Len(highlightedRanges)
                    /\ \A k \in 1..Len(marked) :
                          marked[k].text =
                             [j \in 1..(highlightedRanges[k].end - highlightedRanges[k].start) |->
                                hlText[highlightedRanges[k].start + j]]

\* a rendering with two highlighted ranges of different lengths and a plain
\* span
C18_TwoLengths ==
    /\ mode = "highlight" /\ hpc = "done"
    /\ Len(highlightedRanges) = 2
    /\ highlightedRanges[1].end - highlightedRanges[1].start
         # highlightedRanges[2].end - highlightedRanges[2].start
    /\ Len(rendered) = 3

===========================================================================
